---------------------------- MODULE Spec2Model ----------------------------
(***************************************************************************)
(* A model of the awwasm-parser binary decoder: the module preamble, the   *)
(* section framer, the per-kind section-body decoders, the memory-limits   *)
(* and import entries, the instruction decoder and its iterator, the code  *)
(* entries and the resolution of a module's sections.                      *)
(*                                                                         *)
(* A byte buffer is a sequence of numbers 0..255.  A parser is an operator *)
(* from the remaining input to a result: either a success carrying the     *)
(* decoded value and the input left, or a failure carrying the kind of the *)
(* failure (a recoverable "Error", or "Incomplete" when a streaming parser *)
(* ran out of input).  Values of 32 bits are numbers; the inputs are kept  *)
(* to those whose decoded values stay below 2^31.                          *)
(***************************************************************************)
EXTENDS Integers, Sequences, FiniteSets, TLC

VARIABLES
    input,      \* the byte buffer handed to the decoder
    pc,         \* how far the caller got: "start", then one value per operation
    result,     \* what the last operation returned
    section,    \* the AwwasmSection the caller holds (mutated by resolve)
    module,     \* the AwwasmModule the caller holds
    item,       \* the AwwasmCodeSectionItem the caller holds (mutated by resolve)
    iter,       \* the InstructionIterator the caller holds
    pulls       \* what each call of next() on iter returned, in order

vars == <<input, pc, result, section, module, item, iter, pulls>>

\* Values of variables no operation has set yet.
NoResult == [ok |-> FALSE, kind |-> "NotRun"]
NoSection == [absent |-> TRUE]
NoModule == [absent |-> TRUE]
NoItem == [absent |-> TRUE]
NoIter == [absent |-> TRUE]

\* Option<T>: None, or Some(v).
None == [some |-> FALSE]
Some(v) == [some |-> TRUE, v |-> v]

----------------------------------------------------------------------------
(* nom's IResult and the primitive parsers the derived decoders are built  *)
(* from.                                                                   *)

Ok(v, r) == [ok |-> TRUE, val |-> v, rest |-> r]
Err(k) == [ok |-> FALSE, kind |-> k]

Drop(i, n) == SubSeq(i, n + 1, Len(i))
Take(i, n) == SubSeq(i, 1, n)

\* 2^n, by repeated doubling.
RECURSIVE Pow2(_)
Pow2(n) == IF n = 0 THEN 1 ELSE 2 * Pow2(n - 1)

\* nom::combinator::complete: Incomplete becomes Error.
complete(r) == IF ~r.ok /\ r.kind = "Incomplete" THEN Err("Error") ELSE r

\* nom::combinator::cond(b, p) applied to i, where r is p's result on i.
cond(b, r, i) == IF b THEN (IF r.ok THEN Ok(Some(r.val), r.rest) ELSE r)
                      ELSE Ok(None, i)

\* nom::bytes::streaming::tag, as the derive's Tag attribute generates it.
tag_streaming(t, i) ==
    LET n == IF Len(i) < Len(t) THEN Len(i) ELSE Len(t) IN
    IF Take(i, n) # Take(t, n) THEN Err("Error")
    ELSE IF Len(i) < Len(t) THEN Err("Incomplete")
    ELSE Ok(Take(i, Len(t)), Drop(i, Len(t)))

\* nom::bytes::complete::tag.
tag(t, i) ==
    IF Len(i) >= Len(t) /\ Take(i, Len(t)) = t
    THEN Ok(Take(i, Len(t)), Drop(i, Len(t)))
    ELSE Err("Error")

\* nom::bytes::streaming::take, as the derive's Take attribute generates it.
take(n, i) == IF Len(i) < n THEN Err("Incomplete") ELSE Ok(Take(i, n), Drop(i, n))

\* The derive's parser of a u8 field (streaming).
parse_u8(i) == IF Len(i) < 1 THEN Err("Incomplete") ELSE Ok(i[1], Drop(i, 1))

\* nom::number::complete::le_u8.
le_u8(i) == IF Len(i) < 1 THEN Err("Error") ELSE Ok(i[1], Drop(i, 1))

\* The derive's parser of a u32 field under LittleEndian: four bytes, the
\* least significant first.
le_u32(i) ==
    IF Len(i) < 4 THEN Err("Incomplete")
    ELSE Ok(i[1] + 256 * i[2] + 65536 * i[3] + 16777216 * i[4], Drop(i, 4))

\* nom_leb128::leb128_u32: seven value bits per byte, least significant
\* group first; the fifth byte must end the number, and its bits above the
\* thirty-second are shifted out.
RECURSIVE leb128_u32_from(_, _, _)
leb128_u32_from(i, pos, res) ==
    IF pos >= Len(i) THEN Err("Incomplete")
    ELSE LET byte == i[pos + 1] IN
         IF byte < 128
         THEN Ok(res + (IF pos = 4 THEN byte % 16 ELSE byte) * Pow2(7 * pos),
                 Drop(i, pos + 1))
         ELSE IF pos = 4 THEN Err("Error")
         ELSE leb128_u32_from(i, pos + 1, res + (byte % 128) * Pow2(7 * pos))

leb128_u32(i) == leb128_u32_from(i, 0, 0)

----------------------------------------------------------------------------
(* Constants of the format.                                                *)

WASM_MAGIC_NUMBER == <<0, 97, 115, 109>>
WASM_TYPE_SECTION_OPCODE_FUNC == <<96>>
WASM_FUNC_SECTION_OPCODE_END == 11

----------------------------------------------------------------------------
(* Parsers by name.  A parser that another one calls or repeats is named   *)
(* by a string: parse("T", i) is T::parse(i), and parse("leb128_u32", i)   *)
(* is leb128_u32(i).  A decoder that goes on from the result of a          *)
(* repetition takes that result as its last parameter.                     *)

RECURSIVE parse(_, _)

\* nom::multi::count: the parser n times, any failure failing the whole.
RECURSIVE count_from(_, _, _, _)
RECURSIVE count_item(_, _, _, _)
count_from(p, n, i, acc) ==
    IF n = 0 THEN Ok(acc, i) ELSE count_item(p, n, acc, parse(p, i))

\* count with r what the parser made of the next item.
count_item(p, n, acc, r) ==
    IF ~r.ok THEN r ELSE count_from(p, n - 1, r.rest, Append(acc, r.val))

count(p, n, i) == count_from(p, n, i, <<>>)

\* nom::multi::length_count with a leb128_u32 length, as the derive's
\* LengthCount attribute generates it.
length_count(p, i) ==
    LET c == parse("leb128_u32", i) IN
    IF ~c.ok THEN c ELSE count(p, c.val, c.rest)

\* nom::bytes::complete::take_while(|byte| byte != WASM_FUNC_SECTION_OPCODE_END):
\* the longest prefix free of the end byte; it never fails.
RECURSIVE take_while_not_end_from(_, _)
take_while_not_end_from(i, n) ==
    IF n < Len(i) /\ i[n + 1] # WASM_FUNC_SECTION_OPCODE_END
    THEN take_while_not_end_from(i, n + 1)
    ELSE Ok(Take(i, n), Drop(i, n))

take_while_not_end(i) == take_while_not_end_from(i, 0)

----------------------------------------------------------------------------
(* The entries of the sections (types.rs).                                 *)

\* ParamType: a one-byte tag; a byte outside the enumeration is an Error.
ParamType_parse(i) ==
    LET b == parse_u8(i) IN
    IF ~b.ok THEN b
    ELSE CASE b.val = 0 -> Ok("IUnknown", b.rest)
           [] b.val = 127 -> Ok("I32", b.rest)
           [] b.val = 126 -> Ok("I64", b.rest)
           [] OTHER -> Err("Error")

\* AwwasmTypeSectionItem: the 0x60 tag, the parameter types, the result types.
\* With r what the result types decoded to, and with a what the parameter
\* types did.
AwwasmTypeSectionItem_fn_rets(m, a, r) ==
    IF ~r.ok THEN r
    ELSE Ok([type_magic |-> m, fn_args |-> a, fn_rets |-> r.val], r.rest)

AwwasmTypeSectionItem_fn_args(m, a) ==
    IF ~a.ok THEN a
    ELSE AwwasmTypeSectionItem_fn_rets(m, a.val, length_count("ParamType", a.rest))

AwwasmTypeSectionItem_parse(i) ==
    LET m == tag_streaming(WASM_TYPE_SECTION_OPCODE_FUNC, i) IN
    IF ~m.ok THEN m
    ELSE AwwasmTypeSectionItem_fn_args(m.val, length_count("ParamType", m.rest))

\* AwwasmFuncSectionItem: one type index.
AwwasmFuncSectionItem_parse(i) ==
    LET t == parse("leb128_u32", i) IN
    IF ~t.ok THEN t ELSE Ok([type_item_idx |-> t.val], t.rest)

\* AwwasmCodeSectionItem: the body size, that many raw bytes; parsed_func
\* is not decoded here.
AwwasmCodeSectionItem_parse(i) ==
    LET s == parse("leb128_u32", i) IN
    IF ~s.ok THEN s
    ELSE LET b == take(s.val, s.rest) IN
         IF ~b.ok THEN b
         ELSE Ok([fn_body_size |-> s.val, func_body |-> b.val,
                  parsed_func |-> None], b.rest)

\* AwwasmFunctionLocals: a repeat count and a value type.
AwwasmFunctionLocals_parse(i) ==
    LET c == parse("leb128_u32", i) IN
    IF ~c.ok THEN c
    ELSE LET t == parse("ParamType", c.rest) IN
         IF ~t.ok THEN t
         ELSE Ok([type_count |-> c.val, param_type |-> t.val], t.rest)

\* AwwasmFunction: the local declarations, then the bytes before the first
\* end byte.
\* With l what the local declarations decoded to.
AwwasmFunction_code(l) ==
    IF ~l.ok THEN l
    ELSE LET c == take_while_not_end(l.rest) IN
         Ok([fn_rets |-> l.val, code |-> c.val], c.rest)

AwwasmFunction_parse(i) ==
    AwwasmFunction_code(length_count("AwwasmFunctionLocals", i))

\* AwwasmMemoryParams with max read whenever flags is not zero (a mutant).
AwwasmMemoryParams_parse_MaxIfNonzero(i) ==
    LET f == parse("leb128_u32", i) IN
    IF ~f.ok THEN f
    ELSE LET m == parse("leb128_u32", f.rest) IN
         IF ~m.ok THEN m
         ELSE LET x == cond(f.val # 0, parse("leb128_u32", m.rest), m.rest) IN
              IF ~x.ok THEN x
              ELSE Ok([flags |-> f.val, min |-> m.val, max |-> x.val], x.rest)

\* AwwasmMemoryParams: flags, min, and max when bit 0 of flags is set.
AwwasmMemoryParams_parse(i) ==
    LET f == parse("leb128_u32", i) IN
    IF ~f.ok THEN f
    ELSE LET m == parse("leb128_u32", f.rest) IN
         IF ~m.ok THEN m
         ELSE LET x == cond(f.val % 2 # 0, parse("leb128_u32", m.rest), m.rest) IN
              IF ~x.ok THEN x
              ELSE Ok([flags |-> f.val, min |-> m.val, max |-> x.val], x.rest)

\* AwwasmMemorySectionItem: one limits structure.
AwwasmMemorySectionItem_parse(i) ==
    LET l == parse("AwwasmMemoryParams", i) IN
    IF ~l.ok THEN l ELSE Ok([limits |-> l.val], l.rest)

\* AwwasmName: a length, then that many bytes.
AwwasmName_parse(i) ==
    LET l == parse("leb128_u32", i) IN
    IF ~l.ok THEN l
    ELSE LET b == take(l.val, l.rest) IN
         IF ~b.ok THEN b ELSE Ok([len |-> l.val, bytes |-> b.val], b.rest)

\* AwwasmImportKind and AwwasmExportKind: the same four one-byte tags.
AwwasmImportKind_parse(i) ==
    LET b == parse_u8(i) IN
    IF ~b.ok THEN b
    ELSE CASE b.val = 0 -> Ok("Function", b.rest)
           [] b.val = 1 -> Ok("Table", b.rest)
           [] b.val = 2 -> Ok("Memory", b.rest)
           [] b.val = 3 -> Ok("Global", b.rest)
           [] OTHER -> Err("Error")

AwwasmExportKind_parse(i) == parse("AwwasmImportKind", i)

\* AwwasmImportSectionItem: two names, the kind, a type index when the kind
\* is Function, memory limits when the kind is Memory.
AwwasmImportSectionItem_parse(i) ==
    LET mo == parse("AwwasmName", i) IN
    IF ~mo.ok THEN mo
    ELSE LET na == parse("AwwasmName", mo.rest) IN
         IF ~na.ok THEN na
         ELSE LET k == parse("AwwasmImportKind", na.rest) IN
              IF ~k.ok THEN k
              ELSE LET f == cond(k.val = "Function", parse("leb128_u32", k.rest), k.rest) IN
                   IF ~f.ok THEN f
                   ELSE LET me == cond(k.val = "Memory",
                                       parse("AwwasmMemoryParams", f.rest), f.rest) IN
                        IF ~me.ok THEN me
                        ELSE Ok([module |-> mo.val, name |-> na.val,
                                 kind |-> k.val, func_type_idx |-> f.val,
                                 mem |-> me.val], me.rest)

\* AwwasmExportSectionItem: a name, the kind, an index.
AwwasmExportSectionItem_parse(i) ==
    LET na == parse("AwwasmName", i) IN
    IF ~na.ok THEN na
    ELSE LET k == parse("AwwasmExportKind", na.rest) IN
         IF ~k.ok THEN k
         ELSE LET x == parse("leb128_u32", k.rest) IN
              IF ~x.ok THEN x
              ELSE Ok([name |-> na.val, kind |-> k.val, index |-> x.val], x.rest)

\* AwwasmDataInitExpr: the bytes before the first end byte, then one byte.
AwwasmDataInitExpr_parse(i) ==
    LET c == take_while_not_end(i) IN
    LET e == le_u8(c.rest) IN
    IF ~e.ok THEN e ELSE Ok([code |-> c.val, end |-> e.val], e.rest)

\* A header decoder that reads a memory index whenever it reads an offset
\* expression.
AwwasmDataSegmentHeader_parse_MemidxWithOffset(i) ==
    LET f == parse("leb128_u32", i) IN
    IF ~f.ok THEN f
    ELSE LET m == cond(f.val = 0 \/ f.val = 2,
                       parse("leb128_u32", f.rest), f.rest) IN
         IF ~m.ok THEN m
         ELSE LET o == cond(f.val = 0 \/ f.val = 2,
                            parse("AwwasmDataInitExpr", m.rest), m.rest) IN
              IF ~o.ok THEN o
              ELSE Ok([flags |-> f.val, memidx |-> m.val, offset |-> o.val], o.rest)

\* AwwasmDataSegmentHeader: flags, a memory index when flags is 2, an
\* offset expression when flags is 0 or 2.
AwwasmDataSegmentHeader_parse(i) ==
    LET f == parse("leb128_u32", i) IN
    IF ~f.ok THEN f
    ELSE LET m == cond(f.val = 2, parse("leb128_u32", f.rest), f.rest) IN
         IF ~m.ok THEN m
         ELSE LET o == cond(f.val = 0 \/ f.val = 2,
                            parse("AwwasmDataInitExpr", m.rest), m.rest) IN
              IF ~o.ok THEN o
              ELSE Ok([flags |-> f.val, memidx |-> m.val, offset |-> o.val], o.rest)

\* AwwasmDataSectionItem: the header, a size, that many raw bytes.
AwwasmDataSectionItem_parse(i) ==
    LET h == parse("AwwasmDataSegmentHeader", i) IN
    IF ~h.ok THEN h
    ELSE LET s == parse("leb128_u32", h.rest) IN
         IF ~s.ok THEN s
         ELSE LET b == take(s.val, s.rest) IN
              IF ~b.ok THEN b
              ELSE Ok([header |-> h.val, size |-> s.val, data_bytes |-> b.val],
                      b.rest)

----------------------------------------------------------------------------
(* The instruction decoder (instructions.rs).                              *)

\* The else marker that may end the then-region of an if, and the reserved
\* byte after memory.size and memory.grow.
WASM_FUNC_SECTION_OPCODE_THEN == 5
WASM_INSTRUCTION_MEMORY_ZERO == <<0>>

\* nom_leb128::leb128_i32 and leb128_i64: as leb128_u32 over `bits` bits,
\* the sign taken from bit 6 of the last byte unless that byte is the last
\* one the width allows, whose bits above the width are shifted out.
RECURSIVE leb128_signed_from(_, _, _, _)
leb128_signed_from(i, bits, pos, res) ==
    IF pos >= Len(i) THEN Err("Incomplete")
    ELSE LET byte == i[pos + 1]
             shift == 7 * pos
             last == (bits + 6) \div 7 - 1
             keep == Pow2(bits - shift)
         IN
         IF byte < 128
         THEN IF pos = last
              THEN Ok(res + (IF byte % keep >= keep \div 2
                             THEN (byte % keep) - keep
                             ELSE byte % keep) * Pow2(shift),
                      Drop(i, pos + 1))
              ELSE Ok(res + byte * Pow2(shift)
                          - (IF byte >= 64 THEN Pow2(shift + 7) ELSE 0),
                      Drop(i, pos + 1))
         ELSE IF pos = last THEN Err("Error")
         ELSE leb128_signed_from(i, bits, pos + 1, res + (byte % 128) * Pow2(shift))

leb128_i32(i) == leb128_signed_from(i, 32, 0, 0)
leb128_i64(i) == leb128_signed_from(i, 64, 0, 0)

\* BlockValueType: a one-byte tag.
BlockValueType_parse(i) ==
    LET b == parse_u8(i) IN
    IF ~b.ok THEN b
    ELSE CASE b.val = 64 -> Ok("VOID", b.rest)
           [] b.val = 127 -> Ok("I32", b.rest)
           [] b.val = 126 -> Ok("I64", b.rest)
           [] b.val = 125 -> Ok("F32", b.rest)
           [] b.val = 124 -> Ok("F64", b.rest)
           [] OTHER -> Err("Error")

\* WasmOpCode: a one-byte tag.
WasmOpCode_parse(i) ==
    LET b == parse_u8(i) IN
    IF ~b.ok THEN b
    ELSE CASE b.val = 2 -> Ok("Block", b.rest)
           [] b.val = 3 -> Ok("Loop", b.rest)
           [] b.val = 4 -> Ok("If", b.rest)
           [] b.val = 5 -> Ok("Else", b.rest)
           [] b.val = 11 -> Ok("End", b.rest)
           [] b.val = 12 -> Ok("Br", b.rest)
           [] b.val = 13 -> Ok("BrIf", b.rest)
           [] b.val = 14 -> Ok("BrTable", b.rest)
           [] b.val = 15 -> Ok("Return", b.rest)
           [] b.val = 16 -> Ok("Call", b.rest)
           [] b.val = 17 -> Ok("CallIndirect", b.rest)
           [] b.val = 32 -> Ok("LocalGet", b.rest)
           [] b.val = 33 -> Ok("LocalSet", b.rest)
           [] b.val = 34 -> Ok("LocalTee", b.rest)
           [] b.val = 35 -> Ok("GlobalGet", b.rest)
           [] b.val = 36 -> Ok("GlobalSet", b.rest)
           [] b.val = 40 -> Ok("I32Load", b.rest)
           [] b.val = 41 -> Ok("I64Load", b.rest)
           [] b.val = 54 -> Ok("I32Store", b.rest)
           [] b.val = 55 -> Ok("I64Store", b.rest)
           [] b.val = 63 -> Ok("MemorySize", b.rest)
           [] b.val = 64 -> Ok("MemoryGrow", b.rest)
           [] b.val = 65 -> Ok("I32Const", b.rest)
           [] b.val = 66 -> Ok("I64Const", b.rest)
           [] b.val = 67 -> Ok("F32Const", b.rest)
           [] b.val = 68 -> Ok("F64Const", b.rest)
           [] b.val = 69 -> Ok("I32Eqz", b.rest)
           [] b.val = 70 -> Ok("I32Eq", b.rest)
           [] b.val = 71 -> Ok("I32Ne", b.rest)
           [] b.val = 106 -> Ok("I32Add", b.rest)
           [] b.val = 107 -> Ok("I32Sub", b.rest)
           [] b.val = 108 -> Ok("I32Mul", b.rest)
           [] OTHER -> Err("Error")

\* nom::multi::many_till(f, g): g is tried first; while it fails with a
\* recoverable error, f decodes one more item.  The result is the items
\* and what g matched.
RECURSIVE many_till_from(_, _, _, _)
RECURSIVE many_till_g(_, _, _, _, _)
RECURSIVE many_till_f(_, _, _, _, _)
many_till_from(f, g, i, acc) == many_till_g(f, g, i, acc, parse(g, i))

\* many_till with e what g made of the input.
many_till_g(f, g, i, acc, e) ==
    IF e.ok THEN Ok(<<acc, e.val>>, e.rest)
    ELSE IF e.kind # "Error" THEN e
    ELSE many_till_f(f, g, i, acc, parse(f, i))

\* many_till with r what f made of the input g failed on.
many_till_f(f, g, i, acc, r) ==
    IF ~r.ok THEN r
    ELSE IF Len(r.rest) = Len(i) THEN Err("Error")
    ELSE many_till_from(f, g, r.rest, Append(acc, r.val))

many_till(f, g, i) == many_till_from(f, g, i, <<>>)

\* tag([WASM_FUNC_SECTION_OPCODE_END]).
tag_end(i) == tag(<<WASM_FUNC_SECTION_OPCODE_END>>, i)

\* alt((tag([WASM_FUNC_SECTION_OPCODE_END]), tag([WASM_FUNC_SECTION_OPCODE_THEN]))).
alt_end_then(i) ==
    LET a == tag(<<WASM_FUNC_SECTION_OPCODE_END>>, i) IN
    IF a.ok THEN a ELSE tag(<<WASM_FUNC_SECTION_OPCODE_THEN>>, i)

\* One leb128_u32 field, and two of them (BrOperands, IndexOperands,
\* CallOperands; CallIndirectOperands, MemArg).
BrOperands_parse(i) ==
    LET l == parse("leb128_u32", i) IN
    IF ~l.ok THEN l ELSE Ok([labelidx |-> l.val], l.rest)

IndexOperands_parse(i) ==
    LET l == parse("leb128_u32", i) IN
    IF ~l.ok THEN l ELSE Ok([index |-> l.val], l.rest)

CallOperands_parse(i) ==
    LET l == parse("leb128_u32", i) IN
    IF ~l.ok THEN l ELSE Ok([funcidx |-> l.val], l.rest)

CallIndirectOperands_parse(i) ==
    LET t == parse("leb128_u32", i) IN
    IF ~t.ok THEN t
    ELSE LET b == parse("leb128_u32", t.rest) IN
         IF ~b.ok THEN b ELSE Ok([typeidx |-> t.val, tableidx |-> b.val], b.rest)

MemArg_parse(i) ==
    LET a == parse("leb128_u32", i) IN
    IF ~a.ok THEN a
    ELSE LET o == parse("leb128_u32", a.rest) IN
         IF ~o.ok THEN o ELSE Ok([align |-> a.val, offset |-> o.val], o.rest)

\* BrTableOperands: target_count, then target_count targets, each decoded
\* by the derive's parser of a u32 field, then default.
\* With t what the targets decoded to.
BrTableOperands_default(c, t) ==
    IF ~t.ok THEN t
    ELSE LET d == parse("leb128_u32", t.rest) IN
         IF ~d.ok THEN d
         ELSE Ok([target_count |-> c, targets |-> t.val, default |-> d.val],
                 d.rest)

BrTableOperands_parse(i) ==
    LET c == parse("leb128_u32", i) IN
    IF ~c.ok THEN c
    ELSE BrTableOperands_default(c.val, count("u32", c.val, c.rest))

\* MemoryZeroOperands: the reserved byte.
MemoryZeroOperands_parse(i) ==
    LET r == tag_streaming(WASM_INSTRUCTION_MEMORY_ZERO, i) IN
    IF ~r.ok THEN r ELSE Ok([reserved |-> r.val], r.rest)

I32ConstOperands_parse(i) ==
    LET v == parse("leb128_i32", i) IN
    IF ~v.ok THEN v ELSE Ok([value |-> v.val], v.rest)

I64ConstOperands_parse(i) ==
    LET v == parse("leb128_i64", i) IN
    IF ~v.ok THEN v ELSE Ok([value |-> v.val], v.rest)

\* F32ConstOperands and F64ConstOperands: four and eight bytes; the value
\* is kept as its bit pattern, least significant byte first.
F32ConstOperands_parse(i) ==
    LET v == take(4, i) IN
    IF ~v.ok THEN v ELSE Ok([value |-> v.val], v.rest)

F64ConstOperands_parse(i) ==
    LET v == take(8, i) IN
    IF ~v.ok THEN v ELSE Ok([value |-> v.val], v.rest)

\* BlockOperands and LoopOperands: the block type, then instructions up to
\* the end byte.
\* With b what the instructions decoded to.
BlockOperands_body(t, b) ==
    IF ~b.ok THEN b ELSE Ok([block_type |-> t, body |-> b.val], b.rest)

BlockOperands_parse(i) ==
    LET t == parse("BlockValueType", i) IN
    IF ~t.ok THEN t
    ELSE BlockOperands_body(t.val,
                            many_till("AwwasmInstruction", "tag_end", t.rest))

LoopOperands_parse(i) == parse("BlockOperands", i)

\* IfOperands that never decodes an else region (a mutant).
IfOperands_parse_NoElse(i) ==
    LET t == parse("BlockValueType", i) IN
    IF ~t.ok THEN t
    ELSE LET th == many_till("AwwasmInstruction", "alt_end_then", t.rest) IN
         IF ~th.ok THEN th
         ELSE Ok([block_type |-> t.val, then_body |-> th.val,
                  else_body |-> None], th.rest)

\* IfOperands: the block type, the then-region up to the end byte or the
\* else marker, and, when the else marker ended it, the else-region up to
\* the end byte.
\* With el what the else-region decoded to, and with th what the
\* then-region did.
IfOperands_else_body(t, th, el) ==
    IF ~el.ok THEN el
    ELSE Ok([block_type |-> t, then_body |-> th, else_body |-> el.val], el.rest)

IfOperands_then_body(t, th) ==
    IF ~th.ok THEN th
    ELSE IfOperands_else_body(t, th.val,
             cond(th.val[2][1] = WASM_FUNC_SECTION_OPCODE_THEN,
                  many_till("AwwasmInstruction", "tag_end", th.rest),
                  th.rest))

IfOperands_parse(i) ==
    LET t == parse("BlockValueType", i) IN
    IF ~t.ok THEN t
    ELSE IfOperands_then_body(t.val,
             many_till("AwwasmInstruction", "alt_end_then", t.rest))

\* The operands no opcode carries.
NoOperands == [none |-> TRUE]

\* AwwasmOperands::parse: the operand decoder the opcode selects; Else and
\* End select none, which is an Error.
AwwasmOperands_parse(i, opcode) ==
    CASE opcode = "Block" -> parse("BlockOperands", i)
      [] opcode = "Loop" -> parse("LoopOperands", i)
      [] opcode = "If" -> parse("IfOperands", i)
      [] opcode \in {"Br", "BrIf"} -> parse("BrOperands", i)
      [] opcode = "BrTable" -> parse("BrTableOperands", i)
      [] opcode = "Call" -> parse("CallOperands", i)
      [] opcode = "CallIndirect" -> parse("CallIndirectOperands", i)
      [] opcode \in {"LocalGet", "LocalSet", "LocalTee", "GlobalGet", "GlobalSet"}
            -> parse("IndexOperands", i)
      [] opcode \in {"I32Load", "I64Load", "I32Store", "I64Store"} -> parse("MemArg", i)
      [] opcode \in {"MemorySize", "MemoryGrow"} -> parse("MemoryZeroOperands", i)
      [] opcode = "I32Const" -> parse("I32ConstOperands", i)
      [] opcode = "I64Const" -> parse("I64ConstOperands", i)
      [] opcode = "F32Const" -> parse("F32ConstOperands", i)
      [] opcode = "F64Const" -> parse("F64ConstOperands", i)
      [] opcode \in {"Return", "I32Eqz", "I32Eq", "I32Ne", "I32Add", "I32Sub",
                     "I32Mul"} -> Ok(NoOperands, i)
      [] OTHER -> Err("Error")

\* AwwasmInstruction::parse: the opcode, then its operands.
\* With a what the operands decoded to.
AwwasmInstruction_operands(o, a) ==
    IF ~a.ok THEN a ELSE Ok([opcode |-> o, operands |-> a.val], a.rest)

AwwasmInstruction_parse(i) ==
    LET o == parse("WasmOpCode", i) IN
    IF ~o.ok THEN o
    ELSE AwwasmInstruction_operands(o.val, AwwasmOperands_parse(o.rest, o.val))

----------------------------------------------------------------------------
(* The section framer (section.rs).                                        *)

\* leb128_len_u32: the bytes the shortest encoding of v takes.
RECURSIVE leb128_len_u32(_)
leb128_len_u32(v) == IF v >= 128 THEN 1 + leb128_len_u32(v \div 128) ELSE 1

\* SectionCode: a one-byte tag.
SectionCode_parse(i) ==
    LET b == parse_u8(i) IN
    IF ~b.ok THEN b
    ELSE CASE b.val = 1 -> Ok("Type", b.rest)
           [] b.val = 2 -> Ok("Import", b.rest)
           [] b.val = 3 -> Ok("Function", b.rest)
           [] b.val = 5 -> Ok("Memory", b.rest)
           [] b.val = 7 -> Ok("Export", b.rest)
           [] b.val = 10 -> Ok("Code", b.rest)
           [] b.val = 11 -> Ok("Data", b.rest)
           [] OTHER -> Err("Error")

\* AwwasmSectionHeader: the kind, then the declared size.
AwwasmSectionHeader_parse(i) ==
    LET t == parse("SectionCode", i) IN
    IF ~t.ok THEN t
    ELSE LET s == parse("leb128_u32", t.rest) IN
         IF ~s.ok THEN s
         ELSE Ok([section_type |-> t.val, section_size |-> s.val], s.rest)

\* u32::checked_sub(..).unwrap_or(0).
checked_sub_or_0(a, b) == IF a >= b THEN a - b ELSE 0

\* AwwasmSection::parse: the header, the entry count, then section_size
\* less leb128_len_u32(entry_count) bytes of body (none when that would be
\* negative).  Every field is wrapped in complete.
AwwasmSection_parse(i) ==
    LET h == complete(parse("AwwasmSectionHeader", i)) IN
    IF ~h.ok THEN h
    ELSE LET c == complete(parse("leb128_u32", h.rest)) IN
         IF ~c.ok THEN c
         ELSE LET b == complete(take(checked_sub_or_0(h.val.section_size,
                                                      leb128_len_u32(c.val)),
                                     c.rest)) IN
              IF ~b.ok THEN b
              ELSE Ok([section_header |-> h.val, entry_count |-> c.val,
                       section_body |-> b.val], b.rest)

\* The parser named p, applied to i.
parse(p, i) ==
    CASE p = "u32" -> le_u32(i)
      [] p = "tag_end" -> tag_end(i)
      [] p = "alt_end_then" -> alt_end_then(i)
      [] p = "leb128_u32" -> leb128_u32(i)
      [] p = "leb128_i32" -> leb128_i32(i)
      [] p = "leb128_i64" -> leb128_i64(i)
      [] p = "ParamType" -> ParamType_parse(i)
      [] p = "AwwasmTypeSectionItem" -> AwwasmTypeSectionItem_parse(i)
      [] p = "AwwasmFuncSectionItem" -> AwwasmFuncSectionItem_parse(i)
      [] p = "AwwasmCodeSectionItem" -> AwwasmCodeSectionItem_parse(i)
      [] p = "AwwasmFunctionLocals" -> AwwasmFunctionLocals_parse(i)
      [] p = "AwwasmFunction" -> AwwasmFunction_parse(i)
      [] p = "AwwasmMemoryParams" -> AwwasmMemoryParams_parse(i)
      [] p = "AwwasmMemorySectionItem" -> AwwasmMemorySectionItem_parse(i)
      [] p = "AwwasmName" -> AwwasmName_parse(i)
      [] p = "AwwasmImportKind" -> AwwasmImportKind_parse(i)
      [] p = "AwwasmExportKind" -> AwwasmExportKind_parse(i)
      [] p = "AwwasmImportSectionItem" -> AwwasmImportSectionItem_parse(i)
      [] p = "AwwasmExportSectionItem" -> AwwasmExportSectionItem_parse(i)
      [] p = "AwwasmDataInitExpr" -> AwwasmDataInitExpr_parse(i)
      [] p = "AwwasmDataSegmentHeader" -> AwwasmDataSegmentHeader_parse(i)
      [] p = "AwwasmDataSectionItem" -> AwwasmDataSectionItem_parse(i)
      [] p = "BlockValueType" -> BlockValueType_parse(i)
      [] p = "WasmOpCode" -> WasmOpCode_parse(i)
      [] p = "BrOperands" -> BrOperands_parse(i)
      [] p = "IndexOperands" -> IndexOperands_parse(i)
      [] p = "CallOperands" -> CallOperands_parse(i)
      [] p = "CallIndirectOperands" -> CallIndirectOperands_parse(i)
      [] p = "MemArg" -> MemArg_parse(i)
      [] p = "BrTableOperands" -> BrTableOperands_parse(i)
      [] p = "MemoryZeroOperands" -> MemoryZeroOperands_parse(i)
      [] p = "I32ConstOperands" -> I32ConstOperands_parse(i)
      [] p = "I64ConstOperands" -> I64ConstOperands_parse(i)
      [] p = "F32ConstOperands" -> F32ConstOperands_parse(i)
      [] p = "F64ConstOperands" -> F64ConstOperands_parse(i)
      [] p = "BlockOperands" -> BlockOperands_parse(i)
      [] p = "LoopOperands" -> LoopOperands_parse(i)
      [] p = "IfOperands" -> IfOperands_parse(i)
      [] p = "AwwasmInstruction" -> AwwasmInstruction_parse(i)
      [] p = "SectionCode" -> SectionCode_parse(i)
      [] p = "AwwasmSectionHeader" -> AwwasmSectionHeader_parse(i)
      [] p = "AwwasmSection" -> AwwasmSection_parse(i)

\* The item parser and the SectionItem variant of each section kind.
SectionItemParser(t) ==
    CASE t = "Type" -> "AwwasmTypeSectionItem"
      [] t = "Import" -> "AwwasmImportSectionItem"
      [] t = "Function" -> "AwwasmFuncSectionItem"
      [] t = "Code" -> "AwwasmCodeSectionItem"
      [] t = "Memory" -> "AwwasmMemorySectionItem"
      [] t = "Export" -> "AwwasmExportSectionItem"
      [] t = "Data" -> "AwwasmDataSectionItem"

SectionItemVariant(t) ==
    CASE t = "Type" -> "TypeSectionItems"
      [] t = "Import" -> "ImportSectionItems"
      [] t = "Function" -> "FunctionSectionItems"
      [] t = "Code" -> "CodeSectionItems"
      [] t = "Memory" -> "MemorySectionItems"
      [] t = "Export" -> "ExportSectionItems"
      [] t = "Data" -> "DataSectionItems"

\* AwwasmSection::resolve: when the body is not empty, entry_count items
\* are decoded from it and the body becomes what they left; when it is
\* empty nothing is decoded and the items are None.  On a failure the
\* section is left as it was.  The value is the pair of what is returned
\* and the section afterwards.
\* With r what cond(.., count(..)) made of the body.
AwwasmSection_resolve_items(sec, r) ==
    IF ~r.ok
    THEN [ret |-> [ok |-> FALSE, kind |-> r.kind], section |-> sec]
    ELSE [ret |-> [ok |-> TRUE,
                   val |-> [variant |->
                                SectionItemVariant(sec.section_header.section_type),
                            items |-> r.val]],
          section |-> [sec EXCEPT !.section_body = r.rest]]

AwwasmSection_resolve(sec) ==
    AwwasmSection_resolve_items(sec,
        cond(sec.section_body # <<>>,
             count(SectionItemParser(sec.section_header.section_type),
                   sec.entry_count, sec.section_body),
             sec.section_body))

----------------------------------------------------------------------------
(* The module preamble.                                                    *)

\* AwwasmModulePreamble::parse without the magic check (a mutant).
AwwasmModulePreamble_parse_AnyMagic(i) ==
    LET m == take(4, i) IN
    IF ~m.ok THEN m
    ELSE LET v == le_u32(m.rest) IN
         IF ~v.ok THEN v
         ELSE Ok([magic |-> m.val, version |-> v.val], v.rest)

\* AwwasmModulePreamble::parse: the magic tag, then the version.
AwwasmModulePreamble_parse(i) ==
    LET m == tag_streaming(WASM_MAGIC_NUMBER, i) IN
    IF ~m.ok THEN m
    ELSE LET v == le_u32(m.rest) IN
         IF ~v.ok THEN v
         ELSE Ok([magic |-> m.val, version |-> v.val], v.rest)

\* AwwasmModulePreamble::default().
AwwasmModulePreamble_default == [magic |-> WASM_MAGIC_NUMBER, version |-> 1]

\* AwwasmModulePreamble::new: the parsed preamble, the rest dropped.
AwwasmModulePreamble_new(i) ==
    LET r == AwwasmModulePreamble_parse(i) IN
    IF r.ok THEN [ok |-> TRUE, val |-> r.val] ELSE [ok |-> FALSE, kind |-> r.kind]

\* Inputs of the preamble decoder: a magic with each byte right or wrong,
\* cut short or followed by up to MaxVersionLen further bytes.
MaxVersionLen == 5
VersionBytes == {0, 1, 2}
MagicCandidates ==
    {<<a, b, c, d>> : a \in {0, 1}, b \in {97, 0}, c \in {115, 97}, d \in {109, 115}}
SeqsUpTo(S, n) == UNION {[1..k -> S] : k \in 0..n}
PreambleInputs ==
    {Take(m, k) : m \in MagicCandidates, k \in 0..3}
    \cup {m \o v : m \in MagicCandidates, v \in SeqsUpTo(VersionBytes, MaxVersionLen)}

InitPreamble ==
    /\ input \in PreambleInputs
    /\ pc = "start"
    /\ result = NoResult
    /\ section = NoSection
    /\ module = NoModule
    /\ item = NoItem
    /\ iter = NoIter
    /\ pulls = <<>>

PreambleNew ==
    /\ pc = "start"
    /\ result' = AwwasmModulePreamble_new(input)
    /\ pc' = "preamble"
    /\ UNCHANGED <<input, section, module, item, iter, pulls>>

NextPreamble == PreambleNew

SpecPreamble == InitPreamble /\ [][NextPreamble]_vars

\* C5: the preamble decoder fails on every input whose first four bytes are
\* not \0asm (inputs shorter than four bytes among them), and on the right
\* magic followed by four more bytes it succeeds and returns those bytes
\* read least significant first, so a version other than 1 differs from
\* the default preamble.
C5_PreambleMagicAndVersion ==
    pc = "preamble" =>
        /\ (Len(input) < 4 \/ Take(input, 4) # <<0, 97, 115, 109>>) => ~result.ok
        /\ (Len(input) >= 8 /\ Take(input, 4) = <<0, 97, 115, 109>>) =>
              /\ result.ok
              /\ result.val.version =
                    input[5] + 256 * (input[6] + 256 * (input[7] + 256 * input[8]))
              /\ (result.val.version # 1
                    => result.val # AwwasmModulePreamble_default)
              /\ (result.val.version = 1
                    => result.val = AwwasmModulePreamble_default)

\* C5's case: a right magic with a version whose first two bytes differ.
C5_Witness ==
    /\ pc = "preamble"
    /\ result.ok
    /\ result.val.version = 513
    /\ result.val # AwwasmModulePreamble_default


----------------------------------------------------------------------------
(* The module (module.rs).                                                 *)

\* nom::multi::many1: the first item must decode; after it, decoding stops
\* without failing at the first item that fails with a recoverable error.
RECURSIVE many1_from(_, _, _)
RECURSIVE many1_item(_, _, _, _)
many1_from(p, i, acc) == many1_item(p, i, acc, parse(p, i))

\* many1 with r what the parser made of the next item.
many1_item(p, i, acc, r) ==
    IF ~r.ok
    THEN IF r.kind = "Error"
         THEN (IF acc = <<>> THEN Err("Error") ELSE Ok(acc, i))
         ELSE r
    ELSE IF Len(r.rest) = Len(i) THEN Err("Error")
    ELSE many1_from(p, r.rest, Append(acc, r.val))

many1(p, i) == many1_from(p, i, <<>>)

\* AwwasmModule::parse: the preamble, then, when input remains, one or
\* more sections; no typed list is filled in.
\* With secs what cond(.., many1(..)) made of the input after the preamble.
AwwasmModule_sections(p, secs) ==
    IF ~secs.ok THEN secs
    ELSE Ok([preamble |-> p, sections |-> secs.val,
             types |-> None, imports |-> None, exports |-> None,
             funcs |-> None, code |-> None, memories |-> None,
             data |-> None], secs.rest)

AwwasmModule_parse(i) ==
    LET p == AwwasmModulePreamble_parse(i) IN
    IF ~p.ok THEN p
    ELSE AwwasmModule_sections(p.val,
             cond(p.rest # <<>>, many1("AwwasmSection", p.rest), p.rest))

\* AwwasmModule::new: the parsed module; the input parse left is dropped.
\* With r what AwwasmModule::parse returned.
AwwasmModule_parsed(r) ==
    IF r.ok THEN [ok |-> TRUE, val |-> r.val] ELSE [ok |-> FALSE, kind |-> r.kind]

AwwasmModule_new(i) == AwwasmModule_parsed(AwwasmModule_parse(i))

----------------------------------------------------------------------------
(* Framing and resolving one section.                                      *)

\* Inputs of the section framer: a kind byte (4 is no section kind), a
\* declared size, an entry count in a shortest or a longer encoding, and up
\* to MaxBodyLen further bytes, the size chosen apart from them.
MaxBodyLen == 4
SectionKindBytes == {1, 2, 3, 5, 7, 10, 11}
KindBytes == SectionKindBytes \cup {4}
SizeEncodings == {<<n>> : n \in 0..5}
CountEncodings == {<<0>>, <<1>>, <<2>>, <<128, 0>>, <<129, 0>>}
BodyBytes == {0, 1, 11, 96}
SectionInputs ==
    {<<k>> \o s \o c \o b : k \in KindBytes, s \in SizeEncodings,
                            c \in CountEncodings,
                            b \in SeqsUpTo(BodyBytes, MaxBodyLen)}

InitSection ==
    /\ input \in SectionInputs
    /\ pc = "start"
    /\ result = NoResult
    /\ section = NoSection
    /\ module = NoModule
    /\ item = NoItem
    /\ iter = NoIter
    /\ pulls = <<>>

\* The caller frames the input as one section.
SectionParse ==
    /\ pc = "start"
    /\ LET r == parse("AwwasmSection", input) IN
         /\ result' = r
         /\ section' = IF r.ok THEN r.val ELSE NoSection
         /\ pc' = IF r.ok THEN "framed" ELSE "failed"
    /\ UNCHANGED <<input, module, item, iter, pulls>>

\* The caller resolves the section it holds (again, if it likes).
SectionResolve ==
    /\ pc \in {"framed", "resolved"}
    /\ \E r \in {AwwasmSection_resolve(section)} :
         /\ result' = r.ret
         /\ section' = r.section
    /\ pc' = "resolved"
    /\ UNCHANGED <<input, module, item, iter, pulls>>

NextSection == SectionParse \/ SectionResolve

SpecSection == InitSection /\ [][NextSection]_vars

\* The bytes the varint starting at position p of i takes in i.
VarintSpan(i, p) ==
    CHOOSE k \in 1..(Len(i) - p + 1) :
        /\ i[p + k - 1] < 128
        /\ \A j \in 1..(k - 1) : i[p + j - 1] >= 128

\* C1: whenever the section framer succeeds, the declared section_size is
\* the number of bytes the entry count took in the input plus the length
\* of section_body.
C1_SizeIsCountBytesPlusBody ==
    (pc = "framed" /\ result.ok) =>
        LET sizeBytes == VarintSpan(input, 2)
            countBytes == VarintSpan(input, 2 + sizeBytes)
        IN section.section_header.section_size
              = countBytes + Len(section.section_body)

\* C2: a resolve that succeeds has consumed the section body to its end.
C2_ResolveConsumesBody ==
    (pc = "resolved" /\ result.ok) => section.section_body = <<>>

\* C3: a resolve that succeeds returns exactly entry_count items, and a list
\* that is present whenever entry_count is positive.
C3_ResolveReturnsEntryCountItems ==
    (pc = "resolved" /\ result.ok) =>
        /\ (section.entry_count > 0 => result.val.items.some)
        /\ (result.val.items.some
              => Len(result.val.items.v) = section.entry_count)

----------------------------------------------------------------------------
(* Decoding a module.                                                      *)

\* Inputs of the module decoder: a preamble (right, of another version, or
\* of a wrong magic) followed by up to MaxModuleTail bytes; 9 is no section
\* kind.
MaxModuleTail == 6
ModuleBytes == {0, 1, 3, 9}
ModulePreambles ==
    {<<0, 97, 115, 109, 1, 0, 0, 0>>, <<0, 97, 115, 109, 2, 0, 0, 0>>,
     <<0, 97, 115, 110, 1, 0, 0, 0>>}
ModuleInputs ==
    {p \o t : p \in ModulePreambles, t \in SeqsUpTo(ModuleBytes, MaxModuleTail)}

InitModule ==
    /\ input \in ModuleInputs
    /\ pc = "start"
    /\ result = NoResult
    /\ section = NoSection
    /\ module = NoModule
    /\ item = NoItem
    /\ iter = NoIter
    /\ pulls = <<>>

\* The caller decodes the input as a module.
ModuleNew ==
    /\ pc = "start"
    /\ \E r \in {AwwasmModule_new(input)} :
         /\ result' = r
         /\ module' = IF r.ok THEN r.val ELSE NoModule
         /\ pc' = IF r.ok THEN "module" ELSE "failed"
    /\ UNCHANGED <<input, section, item, iter, pulls>>

NextModule == ModuleNew

SpecModule == InitModule /\ [][NextModule]_vars

\* C4: when the module decoder succeeds, no input is left behind the framed
\* sections: in particular no byte that is no section kind stands where the
\* next section header would.
C4_ModuleAccountsForEveryByte ==
    (pc = "module" /\ result.ok) =>
        LET left == AwwasmModule_parse(input).rest IN
        /\ ~(left # <<>> /\ left[1] \notin SectionKindBytes)
        /\ left = <<>>

----------------------------------------------------------------------------
(* Decoding one memory-limits structure and one import entry.              *)

\* The value of the varint that takes k bytes from position p of i.
RECURSIVE VarintGroups(_, _, _)
VarintGroups(i, p, k) ==
    IF k = 0 THEN 0 ELSE (i[p] % 128) + 128 * VarintGroups(i, p + 1, k - 1)

VarintValue(i, p) == VarintGroups(i, p, VarintSpan(i, p))

\* Inputs of the memory-limits decoder: up to MaxMemLen bytes, among them
\* flags above 1 and bytes that continue a varint.
MaxMemLen == 4
MemBytes == {0, 1, 2, 3, 128, 129}
MemoryInputs == SeqsUpTo(MemBytes, MaxMemLen)

InitMemory ==
    /\ input \in MemoryInputs
    /\ pc = "start"
    /\ result = NoResult
    /\ section = NoSection
    /\ module = NoModule
    /\ item = NoItem
    /\ iter = NoIter
    /\ pulls = <<>>

MemoryParamsParse ==
    /\ pc = "start"
    /\ result' = parse("AwwasmMemoryParams", input)
    /\ pc' = "memory"
    /\ UNCHANGED <<input, section, module, item, iter, pulls>>

NextMemory == MemoryParamsParse

SpecMemory == InitMemory /\ [][NextMemory]_vars

\* C6: no memory-limits structure is decoded with flags other than 0 or 1.
C6_MemoryFlagsZeroOrOne ==
    (pc = "memory" /\ result.ok) => result.val.flags \in {0, 1}

\* C7: in every decoded memory-limits structure max is present exactly when
\* bit 0 of flags is set; when present it is the varint that follows min
\* in the input, and when absent the decoder consumed nothing after min.
C7_MemoryMaxIffFlagBit ==
    (pc = "memory" /\ result.ok) =>
        LET flagsBytes == VarintSpan(input, 1)
            minBytes == VarintSpan(input, 1 + flagsBytes)
            after == 1 + flagsBytes + minBytes
            used == Len(input) - Len(result.rest)
        IN
        /\ result.val.flags = VarintValue(input, 1)
        /\ result.val.min = VarintValue(input, 1 + flagsBytes)
        /\ result.val.max.some <=> (result.val.flags % 2 = 1)
        /\ result.val.max.some =>
              /\ result.val.max.v = VarintValue(input, after)
              /\ used = flagsBytes + minBytes + VarintSpan(input, after)
        /\ ~result.val.max.some => used = flagsBytes + minBytes

\* C7's case: flags 3 (bit 0 set, and not 1) with a max of two bytes.
C7_Witness ==
    /\ pc = "memory"
    /\ result.ok
    /\ result.val.flags = 3
    /\ result.val.max = Some(128)

\* Inputs of the import-entry decoder: up to MaxImportLen bytes, each a
\* name length, a name byte, one of the four kind tags or a payload byte.
MaxImportLen == 5
ImportBytes == {0, 1, 2, 3}
ImportInputs == SeqsUpTo(ImportBytes, MaxImportLen)

InitImport ==
    /\ input \in ImportInputs
    /\ pc = "start"
    /\ result = NoResult
    /\ section = NoSection
    /\ module = NoModule
    /\ item = NoItem
    /\ iter = NoIter
    /\ pulls = <<>>

ImportItemParse ==
    /\ pc = "start"
    /\ result' = parse("AwwasmImportSectionItem", input)
    /\ pc' = "import"
    /\ UNCHANGED <<input, section, module, item, iter, pulls>>

NextImport == ImportItemParse

SpecImport == InitImport /\ [][NextImport]_vars

\* C8: every decoded import entry carries exactly one payload, func_type_idx
\* for a Function and mem for a Memory; no entry of kind Table or Global is
\* decoded.
C8_ImportExactlyOnePayload ==
    (pc = "import" /\ result.ok) =>
        /\ result.val.func_type_idx.some <=> (result.val.kind = "Function")
        /\ result.val.mem.some <=> (result.val.kind = "Memory")
        /\ result.val.func_type_idx.some <=> ~result.val.mem.some
        /\ result.val.kind \notin {"Table", "Global"}

----------------------------------------------------------------------------
(* Decoding one instruction.                                               *)

\* Inputs of the instruction decoder for an if: the if opcode, then up to
\* MaxIfLen bytes among if, else, end, the void block type and i32.eqz.
MaxIfLen == 6
IfBytes == {4, 5, 11, 64, 69}
IfInputs == {<<4>> \o s : s \in SeqsUpTo(IfBytes, MaxIfLen)}

\* Inputs of the instruction decoder for a branch table: the br_table
\* opcode, then up to MaxBrLen bytes.  From the fifth on they are below
\* 0x80, so that a target read as four bytes stays below 2^31.
MaxBrLen == 6
BrBytes == {0, 1, 2, 128}
BrTableInputs ==
    {<<14>> \o s : s \in {t \in SeqsUpTo(BrBytes, MaxBrLen) :
                            \A k \in 5..Len(t) : t[k] < 128}}

InitIf ==
    /\ input \in IfInputs
    /\ pc = "start"
    /\ result = NoResult
    /\ section = NoSection
    /\ module = NoModule
    /\ item = NoItem
    /\ iter = NoIter
    /\ pulls = <<>>

InitBrTable ==
    /\ input \in BrTableInputs
    /\ pc = "start"
    /\ result = NoResult
    /\ section = NoSection
    /\ module = NoModule
    /\ item = NoItem
    /\ iter = NoIter
    /\ pulls = <<>>

InstructionParse ==
    /\ pc = "start"
    /\ result' = parse("AwwasmInstruction", input)
    /\ pc' = "instr"
    /\ UNCHANGED <<input, section, module, item, iter, pulls>>

NextInstruction == InstructionParse

SpecIf == InitIf /\ [][NextInstruction]_vars

SpecBrTable == InitBrTable /\ [][NextInstruction]_vars

\* The bytes of a decoded instruction built of if, block, loop and the
\* opcodes without operands: an else region is written only when else_body
\* is present, and each region ends with the byte recorded as its sentinel.
BlockTypeByte(t) ==
    CASE t = "VOID" -> 64 [] t = "I32" -> 127 [] t = "I64" -> 126
      [] t = "F32" -> 125 [] t = "F64" -> 124

PlainOpcodeByte(o) ==
    CASE o = "Return" -> 15 [] o = "I32Eqz" -> 69 [] o = "I32Eq" -> 70
      [] o = "I32Ne" -> 71 [] o = "I32Add" -> 106 [] o = "I32Sub" -> 107
      [] o = "I32Mul" -> 108

RECURSIVE InstrBytes(_), InstrSeqBytes(_)
InstrBytes(x) ==
    CASE x.opcode = "If" ->
           <<4, BlockTypeByte(x.operands.block_type)>>
           \o InstrSeqBytes(x.operands.then_body[1]) \o x.operands.then_body[2]
           \o (IF x.operands.else_body.some
               THEN InstrSeqBytes(x.operands.else_body.v[1])
                    \o x.operands.else_body.v[2]
               ELSE <<>>)
      [] x.opcode \in {"Block", "Loop"} ->
           <<(IF x.opcode = "Block" THEN 2 ELSE 3),
             BlockTypeByte(x.operands.block_type)>>
           \o InstrSeqBytes(x.operands.body[1]) \o x.operands.body[2]
      [] OTHER -> <<PlainOpcodeByte(x.opcode)>>
InstrSeqBytes(xs) ==
    IF xs = <<>> THEN <<>> ELSE InstrBytes(Head(xs)) \o InstrSeqBytes(Tail(xs))

\* Every if in the decoded instruction x, nested ones included, has an
\* else_body ended by the end byte when the else marker ended its
\* then-region, and none when the end byte did.
RECURSIVE IfShape(_), IfShapeSeq(_)
IfShape(x) ==
    CASE x.opcode = "If" ->
           LET th == x.operands.then_body
               el == x.operands.else_body
           IN
           /\ th[2] \in {<<5>>, <<11>>}
           /\ th[2] = <<5>> => (el.some /\ el.v[2] = <<11>>)
           /\ th[2] = <<11>> => ~el.some
           /\ IfShapeSeq(th[1])
           /\ el.some => IfShapeSeq(el.v[1])
      [] x.opcode \in {"Block", "Loop"} -> IfShapeSeq(x.operands.body[1])
      [] OTHER -> TRUE
IfShapeSeq(xs) == \A k \in 1..Len(xs) : IfShape(xs[k])

\* C9: a decoded if whose then-region the else marker ended has an
\* else_body, itself ended by the end byte; one whose then-region the end
\* byte ended has none, and the decoder consumed nothing behind that end
\* byte: the bytes consumed are exactly those of the decoded regions.
C9_IfElseFollowsSentinel ==
    (pc = "instr" /\ result.ok /\ result.val.opcode = "If") =>
        /\ IfShape(result.val)
        /\ Take(input, Len(input) - Len(result.rest)) = InstrBytes(result.val)

\* C9's case: an if with an else region of one instruction.
C9_Witness ==
    /\ pc = "instr"
    /\ result.ok
    /\ result.val.opcode = "If"
    /\ result.val.operands.then_body[2] = <<5>>
    /\ result.val.operands.else_body.some
    /\ Len(result.val.operands.else_body.v[1]) = 1

\* The bytes n consecutive varints take from position p of i, or -1 when
\* the input ends before the last of them does.
RECURSIVE VarintsSpan(_, _, _)
VarintsSpan(i, p, n) ==
    IF n = 0 THEN 0
    ELSE IF ~(\E k \in p..Len(i) : i[k] < 128) THEN -1
    ELSE LET one == VarintSpan(i, p)
             more == VarintsSpan(i, p + one, n - 1)
         IN IF more < 0 THEN -1 ELSE one + more

\* C10: after the opcode a branch table is target_count, then target_count
\* varints, then default, each a varint: the decoder succeeds exactly on
\* the inputs that hold them, and consumes the opcode and their bytes.
C10_BrTableConsumesVarints ==
    pc = "instr" =>
        LET countBytes == VarintsSpan(input, 2, 1)
            n == IF countBytes < 0 THEN 0 ELSE VarintValue(input, 2)
            allBytes == IF countBytes < 0 THEN -1
                        ELSE IF n > Len(input) THEN -1
                        ELSE VarintsSpan(input, 2, n + 2)
        IN
        /\ result.ok <=> allBytes >= 0
        /\ result.ok => Len(input) - Len(result.rest) = 1 + allBytes

----------------------------------------------------------------------------
(* The instruction iterator (instructions.rs).                             *)

\* InstructionIterator::new.
InstructionIterator_new(i) == [remaining |-> i]

\* With r what AwwasmInstruction::parse made of the remaining bytes: a
\* decoded instruction moves the cursor behind it, a failure empties the
\* cursor.
InstructionIterator_next_match(r) ==
    IF r.ok
    THEN [ret |-> Some([ok |-> TRUE, val |-> r.val]),
          iter |-> [remaining |-> r.rest]]
    ELSE [ret |-> Some([ok |-> FALSE, kind |-> r.kind]),
          iter |-> [remaining |-> <<>>]]

\* InstructionIterator::next that leaves the cursor where it was when the
\* decoder fails (a mutant).
InstructionIterator_next_KeepsCursor(it) ==
    IF it.remaining = <<>> THEN [ret |-> None, iter |-> it]
    ELSE LET r == parse("AwwasmInstruction", it.remaining) IN
         IF r.ok THEN InstructionIterator_next_match(r)
         ELSE [ret |-> Some([ok |-> FALSE, kind |-> r.kind]), iter |-> it]

\* InstructionIterator::next: the pair of what is returned and the
\* iterator afterwards.
InstructionIterator_next(it) ==
    IF it.remaining = <<>> THEN [ret |-> None, iter |-> it]
    ELSE InstructionIterator_next_match(parse("AwwasmInstruction", it.remaining))

\* Inputs of the iterator: up to MaxIterLen bytes among if, else, end, the
\* void block type and i32.eqz; the caller pulls up to MaxPulls times.
MaxIterLen == 4
MaxPulls == 4
IterInputs == SeqsUpTo(IfBytes, MaxIterLen)

InitIter ==
    /\ input \in IterInputs
    /\ pc = "start"
    /\ result = NoResult
    /\ section = NoSection
    /\ module = NoModule
    /\ item = NoItem
    /\ iter = NoIter
    /\ pulls = <<>>

\* The caller makes an iterator over the input.
IterNew ==
    /\ pc = "start"
    /\ iter' = InstructionIterator_new(input)
    /\ pc' = "iterating"
    /\ UNCHANGED <<input, result, section, module, item, pulls>>

\* The caller pulls once more.
IterNext ==
    /\ pc = "iterating"
    /\ Len(pulls) < MaxPulls
    /\ \E r \in {InstructionIterator_next(iter)} :
         /\ iter' = r.iter
         /\ result' = r.ret
         /\ pulls' = Append(pulls, [ret |-> r.ret, before |-> iter.remaining,
                                    after |-> r.iter.remaining])
    /\ UNCHANGED <<input, pc, section, module, item>>

NextIter == IterNew \/ IterNext

SpecIter == InitIter /\ [][NextIter]_vars

\* What a pull returned: an instruction, an error, or nothing.
PullIsInstr(p) == p.ret.some /\ p.ret.v.ok
PullIsError(p) == p.ret.some /\ ~p.ret.v.ok

\* C11: a pull that returns an instruction moves the cursor over exactly
\* the bytes of that instruction; at most one pull returns an error; and a
\* pull made on an empty cursor, or after a pull that returned an error or
\* nothing, returns nothing and leaves the cursor alone.
C11_IteratorStopsAfterError ==
    \A k \in 1..Len(pulls) :
        LET p == pulls[k] IN
        /\ PullIsInstr(p) => p.before = InstrBytes(p.ret.v.val) \o p.after
        /\ PullIsError(p) => \A j \in 1..(k - 1) : ~PullIsError(pulls[j])
        /\ (\/ p.before = <<>>
            \/ \E j \in 1..(k - 1) : ~PullIsInstr(pulls[j]))
           => (~p.ret.some /\ p.after = p.before)

\* C11's case: an instruction, then an error, then nothing.
C11_Witness ==
    /\ Len(pulls) >= 3
    /\ PullIsInstr(pulls[1])
    /\ PullIsError(pulls[2])
    /\ pulls[2].before # <<>>
    /\ ~pulls[3].ret.some

----------------------------------------------------------------------------
(* Resolving one Code entry (types.rs).                                    *)

\* With r what cond(.., AwwasmFunction::parse) made of func_body: on a
\* failure the entry is left as it was, otherwise func_body becomes what
\* was left and parsed_func what was decoded (None when nothing was).
AwwasmCodeSectionItem_resolve_assign(it, r) ==
    IF ~r.ok
    THEN [ret |-> [ok |-> FALSE, kind |-> r.kind], item |-> it]
    ELSE [ret |-> [ok |-> TRUE],
          item |-> [it EXCEPT !.func_body = r.rest, !.parsed_func = r.val]]

\* AwwasmCodeSectionItem::resolve that stores parsed_func and leaves
\* func_body as it was (a mutant).
AwwasmCodeSectionItem_resolve_KeepsBody(it) ==
    LET r == cond(it.func_body # <<>>, parse("AwwasmFunction", it.func_body),
                  it.func_body) IN
    IF ~r.ok
    THEN [ret |-> [ok |-> FALSE, kind |-> r.kind], item |-> it]
    ELSE [ret |-> [ok |-> TRUE], item |-> [it EXCEPT !.parsed_func = r.val]]

\* AwwasmCodeSectionItem::resolve: the pair of what is returned and the
\* entry afterwards.
AwwasmCodeSectionItem_resolve(it) ==
    AwwasmCodeSectionItem_resolve_assign(it,
        cond(it.func_body # <<>>, parse("AwwasmFunction", it.func_body),
             it.func_body))

\* Inputs of the Code entry decoder: a body of up to MaxCodeLen bytes among
\* 0, 1, block, end, i32.const and the i32 type, behind its size.
MaxCodeLen == 5
CodeBytes == {0, 1, 2, 11, 65, 127}
CodeItemInputs == {<<Len(b)>> \o b : b \in SeqsUpTo(CodeBytes, MaxCodeLen)}

InitCodeItem ==
    /\ input \in CodeItemInputs
    /\ pc = "start"
    /\ result = NoResult
    /\ section = NoSection
    /\ module = NoModule
    /\ item = NoItem
    /\ iter = NoIter
    /\ pulls = <<>>

\* The caller decodes the input as one Code entry.
CodeItemParse ==
    /\ pc = "start"
    /\ \E r \in {parse("AwwasmCodeSectionItem", input)} :
         /\ result' = r
         /\ item' = IF r.ok THEN r.val ELSE NoItem
         /\ pc' = IF r.ok THEN "item" ELSE "failed"
    /\ UNCHANGED <<input, section, module, iter, pulls>>

\* The caller resolves the entry it holds, for the first time or again; pc
\* tells whether no, one or more calls have succeeded.
CodeItemResolve ==
    /\ pc \in {"item", "resolved", "resolved_again"}
    /\ \E r \in {AwwasmCodeSectionItem_resolve(item)} :
         /\ result' = r.ret
         /\ item' = r.item
         /\ pc' = IF ~r.ret.ok THEN pc
                  ELSE IF pc = "item" THEN "resolved" ELSE "resolved_again"
    /\ UNCHANGED <<input, section, module, iter, pulls>>

NextCodeItem == CodeItemParse \/ CodeItemResolve

SpecCodeItem == InitCodeItem /\ [][NextCodeItem]_vars

\* The raw body the input holds behind its size.
RawBody == Take(Drop(input, VarintSpan(input, 1)), VarintValue(input, 1))

\* The position in b behind n local declarations that start at p, each a
\* varint and one type byte.
RECURSIVE LocalsEnd(_, _, _)
LocalsEnd(b, p, n) ==
    IF n = 0 THEN p ELSE LocalsEnd(b, p + VarintSpan(b, p) + 1, n - 1)

\* The position of the first end byte of b at or behind p, or the position
\* behind b when there is none.
FirstEnd(b, p) ==
    IF \E k \in p..Len(b) : b[k] = 11
    THEN CHOOSE k \in p..Len(b) : b[k] = 11 /\ \A j \in p..(k - 1) : b[j] # 11
    ELSE Len(b) + 1

ParamTypeByte(t) ==
    CASE t = "IUnknown" -> 0 [] t = "I32" -> 127 [] t = "I64" -> 126

\* C12: after the first successful resolve of an entry whose raw body is
\* not empty, parsed_func holds the local declarations the body starts
\* with and, as code, the bytes behind them up to the first end byte;
\* func_body is what follows (nothing, or bytes that start with the end
\* byte); fn_body_size is as decoded; and the bytes of the locals, code and
\* func_body make up the raw body.
C12_ResolveSplitsBody ==
    (pc = "resolved" /\ RawBody # <<>>) =>
        LET b == RawBody
            n == VarintValue(b, 1)
            first == 1 + VarintSpan(b, 1)
            codeAt == LocalsEnd(b, first, n)
            endAt == FirstEnd(b, codeAt)
            f == item.parsed_func
        IN
        /\ f.some
        /\ Len(f.v.fn_rets) = n
        /\ \A k \in 1..n :
               LET q == LocalsEnd(b, first, k - 1) IN
               /\ f.v.fn_rets[k].type_count = VarintValue(b, q)
               /\ ParamTypeByte(f.v.fn_rets[k].param_type) = b[q + VarintSpan(b, q)]
        /\ f.v.code = SubSeq(b, codeAt, endAt - 1)
        /\ item.func_body = SubSeq(b, endAt, Len(b))
        /\ (item.func_body = <<>> \/ item.func_body[1] = 11)
        /\ item.fn_body_size = VarintValue(input, 1)
        /\ Take(b, codeAt - 1) \o f.v.code \o item.func_body = b

\* C12's case: a body of one local declaration, one code byte and the end
\* byte.
C12_Witness ==
    /\ pc = "resolved"
    /\ item.parsed_func.some
    /\ Len(item.parsed_func.v.fn_rets) = 1
    /\ Len(item.parsed_func.v.code) = 1
    /\ item.func_body = <<11>>

\* A body is well formed when it is a list of local declarations, then
\* instructions the instruction decoder accepts, then the closing end byte
\* and nothing more.
WellFormedBody(b) ==
    LET l == length_count("AwwasmFunctionLocals", b) IN
    /\ l.ok
    /\ LET x == many_till("AwwasmInstruction", "tag_end", l.rest) IN
       x.ok /\ x.rest = <<>>

\* C13: after the first successful resolve of an entry whose raw body is
\* well formed, code is every instruction byte up to the closing end byte
\* and func_body is that one byte.
C13_CodeReachesClosingEnd ==
    (pc = "resolved" /\ WellFormedBody(RawBody)) =>
        LET l == length_count("AwwasmFunctionLocals", RawBody) IN
        /\ item.parsed_func.some
        /\ item.parsed_func.v.code = Take(l.rest, Len(l.rest) - 1)
        /\ item.func_body = <<11>>

\* C14: once a resolve has succeeded, a further resolve that succeeds
\* leaves func_body and parsed_func as they were.
C14_SecondResolveHarmless ==
    [][(pc \in {"resolved", "resolved_again"} /\ result'.ok)
           => (item'.func_body = item.func_body
               /\ item'.parsed_func = item.parsed_func)]_vars

----------------------------------------------------------------------------
(* Decoding value types: in a Type entry and in a function's locals.       *)

\* Inputs of the Type entry decoder and of the function decoder: up to
\* MaxTypeLen bytes among 0, 1, 2, the 0x60 tag and the i64 and i32 types.
MaxTypeLen == 5
TypeBytes == {0, 1, 2, 96, 126, 127}
TypeInputs == SeqsUpTo(TypeBytes, MaxTypeLen)

InitValueTypes ==
    /\ input \in TypeInputs
    /\ pc = "start"
    /\ result = NoResult
    /\ section = NoSection
    /\ module = NoModule
    /\ item = NoItem
    /\ iter = NoIter
    /\ pulls = <<>>

\* The caller decodes the input as one Type entry.
TypeItemParse ==
    /\ pc = "start"
    /\ result' = parse("AwwasmTypeSectionItem", input)
    /\ pc' = "type"
    /\ UNCHANGED <<input, section, module, item, iter, pulls>>

\* The caller decodes the input as one function: locals, then code.
FunctionParse ==
    /\ pc = "start"
    /\ result' = parse("AwwasmFunction", input)
    /\ pc' = "function"
    /\ UNCHANGED <<input, section, module, item, iter, pulls>>

NextValueTypes == TypeItemParse \/ FunctionParse

SpecValueTypes == InitValueTypes /\ [][NextValueTypes]_vars

\* C15: no decoded Type entry has IUnknown among its parameter or result
\* types, and no decoded function has it as the type of a local
\* declaration.
C15_NoUnknownValueType ==
    /\ (pc = "type" /\ result.ok) =>
           /\ \A k \in 1..Len(result.val.fn_args) :
                  result.val.fn_args[k] # "IUnknown"
           /\ \A k \in 1..Len(result.val.fn_rets) :
                  result.val.fn_rets[k] # "IUnknown"
    /\ (pc = "function" /\ result.ok) =>
           \A k \in 1..Len(result.val.fn_rets) :
               result.val.fn_rets[k].param_type # "IUnknown"

----------------------------------------------------------------------------
(* Resolving the sections of a module (module.rs).                         *)

\* The typed list of the module that holds the items of a SectionItem
\* variant, and the module with that list set to x.
TypedList(m, variant) ==
    CASE variant = "TypeSectionItems" -> m.types
      [] variant = "ImportSectionItems" -> m.imports
      [] variant = "ExportSectionItems" -> m.exports
      [] variant = "FunctionSectionItems" -> m.funcs
      [] variant = "CodeSectionItems" -> m.code
      [] variant = "MemorySectionItems" -> m.memories
      [] variant = "DataSectionItems" -> m.data

SetTypedList(m, variant, x) ==
    CASE variant = "TypeSectionItems" -> [m EXCEPT !.types = x]
      [] variant = "ImportSectionItems" -> [m EXCEPT !.imports = x]
      [] variant = "ExportSectionItems" -> [m EXCEPT !.exports = x]
      [] variant = "FunctionSectionItems" -> [m EXCEPT !.funcs = x]
      [] variant = "CodeSectionItems" -> [m EXCEPT !.code = x]
      [] variant = "MemorySectionItems" -> [m EXCEPT !.memories = x]
      [] variant = "DataSectionItems" -> [m EXCEPT !.data = x]

\* What a call that panicked hands its caller: no value is returned.
Panic == [ok |-> FALSE, kind |-> "Panic"]

\* The for_each of resolve_all_sections from the k-th section on: each
\* section is resolved in place and its items are stored in the typed list
\* of its kind; items.unwrap() panics on a section that fails to resolve,
\* leaving the module as the sections before it made it.
RECURSIVE resolve_all_sections_from(_, _)
RECURSIVE resolve_all_sections_match(_, _, _)
resolve_all_sections_from(m, k) ==
    IF k > Len(m.sections.v) THEN [ret |-> [ok |-> TRUE], module |-> m]
    ELSE resolve_all_sections_match(m, k, AwwasmSection_resolve(m.sections.v[k]))

\* With r what the k-th section's resolve returned and made of the section.
resolve_all_sections_match(m, k, r) ==
    IF ~r.ret.ok THEN [ret |-> Panic, module |-> m]
    ELSE resolve_all_sections_from(
             SetTypedList([m EXCEPT !.sections.v[k] = r.section],
                          r.ret.val.variant, r.ret.val.items),
             k + 1)

\* AwwasmModule::resolve_all_sections: the pair of what is returned and
\* the module afterwards; sections.as_mut().unwrap() panics when the
\* module has no section list.
AwwasmModule_resolve_all_sections(m) ==
    IF ~m.sections.some THEN [ret |-> Panic, module |-> m]
    ELSE resolve_all_sections_from(m, 1)

\* The caller resolves the sections of the module it holds, for the first
\* time or again.
ModuleResolveAll ==
    /\ pc \in {"module", "resolved_all"}
    /\ \E r \in {AwwasmModule_resolve_all_sections(module)} :
         /\ result' = r.ret
         /\ module' = r.module
         /\ pc' = IF r.ret.ok THEN "resolved_all" ELSE "panicked"
    /\ UNCHANGED <<input, section, item, iter, pulls>>

NextResolveAll == ModuleNew \/ ModuleResolveAll

SpecResolveAll == InitModule /\ [][NextResolveAll]_vars

\* C16: once resolve_all_sections has returned successfully, the typed
\* list of every section kind among the module's sections is Some.
C16_TypedListsSomeAfterResolve ==
    (pc = "resolved_all" /\ result.ok) =>
        \A k \in 1..Len(module.sections.v) :
            TypedList(module,
                      SectionItemVariant(
                          module.sections.v[k].section_header.section_type)).some

\* C18: resolve_all_sections returns to its caller, with Ok or with an
\* error, on every module the decode entry point produced.
C18_ResolveAllNeverPanics ==
    /\ pc # "panicked"
    /\ pc = "resolved_all" => (result.ok \/ result.kind = "Error")

----------------------------------------------------------------------------
(* Decoding one data segment (types.rs).                                   *)

MaxDataLen == 6

DataBytes == {0, 1, 2, 11, 65}

DataInputs == SeqsUpTo(DataBytes, MaxDataLen)

InitData ==
    /\ input \in DataInputs
    /\ pc = "start"
    /\ result = NoResult
    /\ section = NoSection
    /\ module = NoModule
    /\ item = NoItem
    /\ iter = NoIter
    /\ pulls = <<>>

\* The caller decodes the input as one data segment.
DataItemParse ==
    /\ pc = "start"
    /\ result' = parse("AwwasmDataSectionItem", input)
    /\ pc' = IF result'.ok THEN "data" ELSE "failed"
    /\ UNCHANGED <<input, section, module, item, iter, pulls>>

NextData == DataItemParse

SpecData == InitData /\ [][NextData]_vars

\* The position in the input of the size varint of the decoded segment d:
\* after the flags, the memory index and the offset expression with its
\* end byte, as far as d has them.
SizePos(d) ==
    LET afterFlags == 1 + VarintSpan(input, 1)
        afterMem == IF d.header.memidx.some
                    THEN afterFlags + VarintSpan(input, afterFlags)
                    ELSE afterFlags
    IN  IF d.header.offset.some
        THEN afterMem + Len(d.header.offset.v.code) + 1
        ELSE afterMem

\* C17: in every successfully decoded data segment the memory index is
\* present exactly when flags is 2, the offset expression exactly when
\* flags is 0 or 2; a present offset expression has no end byte in its
\* code and the end byte as its end field; data_bytes are the size bytes
\* that follow the size varint.
C17_DataSegmentShape ==
    (pc = "data") =>
        LET d == result.val
            h == d.header
            q == SizePos(d)
            b == q + VarintSpan(input, q)
        IN  /\ h.flags = VarintValue(input, 1)
            /\ h.memidx.some <=> (h.flags = 2)
            /\ h.offset.some <=> (h.flags = 0 \/ h.flags = 2)
            /\ h.offset.some =>
                 /\ \A j \in 1..Len(h.offset.v.code) :
                        h.offset.v.code[j] # WASM_FUNC_SECTION_OPCODE_END
                 /\ h.offset.v.end = WASM_FUNC_SECTION_OPCODE_END
                 /\ SubSeq(input, q - Len(h.offset.v.code) - 1, q - 1)
                        = h.offset.v.code \o <<h.offset.v.end>>
            /\ d.size = VarintValue(input, q)
            /\ Len(d.data_bytes) = d.size
            /\ d.data_bytes = SubSeq(input, b, b + d.size - 1)
            /\ result.rest = SubSeq(input, b + d.size, Len(input))

\* A segment with a memory index, a non-empty offset expression and data.
C17_Witness ==
    /\ pc = "data"
    /\ result.val.header.flags = 2
    /\ result.val.header.memidx.some
    /\ result.val.header.offset.some
    /\ result.val.header.offset.v.code # <<>>
    /\ result.val.size > 0

=============================================================================
